---- MODULE Spec2Model ----
\* Model of backend/main.py of AI_Nutritionist: the reply parser
\* parse_gemini_response, the in-memory food_log / chat_history, and the four
\* request handlers running on one asyncio event loop.
\*
\* A Python str is modelled as the sequence of its characters, so that
\* startswith, split, `in` and re.search are computed character by character.
\* A float is modelled as the exact decimal it denotes, counted in units of
\* 10^-Precision.
EXTENDS Integers, Sequences, FiniteSets, TLC

\* ---------------------------------------------------------------------------
\* Bounds of the model
\* ---------------------------------------------------------------------------
\* at most this many analyze_food calls are suspended at once
MaxInFlight == 2
\* food_log is explored up to this many records
MaxLog == 3
\* chat_history is explored up to this many turns
MaxChat == 1
\* decimal places kept of a parsed number
Precision == 1

\* ---------------------------------------------------------------------------
\* String literals of the source, as character sequences
\* ---------------------------------------------------------------------------
ItemMarker ==
    <<"-", " ", "I", "t", "e", "m", ":">>
ItemSep ==
    <<"I", "t", "e", "m", ":", " ">>
NameSep ==
    <<" ", "-", " ">>
CaloriesKey ==
    <<"C", "a", "l", "o", "r", "i", "e", "s", ":">>
CarbsKey ==
    <<"C", "a", "r", "b", "s", ":">>
ProteinsKey ==
    <<"P", "r", "o", "t", "e", "i", "n", "s", ":">>
FatsKey ==
    <<"F", "a", "t", "s", ":">>
CaloriesPrefix ==
    <<"C", "a", "l", "o", "r", "i", "e", "s", ":", " ">>
CarbsPrefix ==
    <<"C", "a", "r", "b", "s", ":", " ">>
ProteinsPrefix ==
    <<"P", "r", "o", "t", "e", "i", "n", "s", ":", " ">>
FatsPrefix ==
    <<"F", "a", "t", "s", ":", " ">>
KcalSuffix ==
    <<" ", "k", "c", "a", "l">>
GramSuffix ==
    <<" ", "g">>
Unknown ==
    <<"U", "n", "k", "n", "o", "w", "n">>
ImagePrefix ==
    <<"i", "m", "a", "g", "e", "/">>
Newline ==
    <<"\n">>

\* ---------------------------------------------------------------------------
\* Inputs: content types, chat messages and replies of the generative model
\* ---------------------------------------------------------------------------
ImagePng ==
    <<"i", "m", "a", "g", "e", "/", "p", "n", "g">>
TextPlain ==
    <<"t", "e", "x", "t", "/", "p", "l", "a", "i", "n">>
Hi ==
    <<"h", "i">>
Blank ==
    <<" ", " ">>
Advice ==
    <<"e", "a", "t", " ", "m", "o", "r", "e", " ", "f", "i", "b", "r", "e">>
Apple ==
    <<"A", "p", "p", "l", "e">>
Banana ==
    <<"B", "a", "n", "a", "n", "a">>
MysteryFood ==
    <<"M", "y", "s", "t", "e", "r", "y", "F", "o", "o", "d">>
Oats ==
    <<"O", "a", "t", "s">>
Milk ==
    <<"M", "i", "l", "k">>
\* the two item lines of the documented one-line shape
AppleLine ==
    <<"-", " ", "I", "t", "e", "m", ":", " ", "A", "p", "p", "l", "e", " ", "-", " ", "C", "a", "l", "o", "r", "i", "e", "s", ":", " ", "9", "5", " ", "k", "c", "a", "l", ",", " ", "C", "a", "r", "b", "s", ":", " ", "2", "5", " ", "g", ",", " ", "P", "r", "o", "t", "e", "i", "n", "s", ":", " ", "0", ".", "5", " ", "g", ",", " ", "F", "a", "t", "s", ":", " ", "0", ".", "3", " ", "g">>
BananaLine ==
    <<"-", " ", "I", "t", "e", "m", ":", " ", "B", "a", "n", "a", "n", "a", " ", "-", " ", "C", "a", "l", "o", "r", "i", "e", "s", ":", " ", "1", "0", "5", " ", "k", "c", "a", "l", ",", " ", "C", "a", "r", "b", "s", ":", " ", "2", "7", " ", "g", ",", " ", "P", "r", "o", "t", "e", "i", "n", "s", ":", " ", "1", ".", "3", " ", "g", ",", " ", "F", "a", "t", "s", ":", " ", "0", ".", "4", " ", "g">>
\* a reply with a field marker and no item line
TotalsText ==
    <<"T", "o", "t", "a", "l", " ", "C", "a", "l", "o", "r", "i", "e", "s", ":", " ", "3", "0", "0", " ", "k", "c", "a", "l">>
\* replies whose captured token is not a number
TwoDotsText ==
    <<"C", "a", "l", "o", "r", "i", "e", "s", ":", " ", "1", ".", "2", ".", "3", " ", "k", "c", "a", "l">>
LoneDotText ==
    <<"-", " ", "I", "t", "e", "m", ":", " ", "T", "e", "a", " ", "-", " ", "h", "o", "t", "\n", "C", "a", "l", "o", "r", "i", "e", "s", ":", " ", ".", " ", "k", "c", "a", "l">>
\* item lines without a separator after the name
MysteryText ==
    <<"-", " ", "I", "t", "e", "m", ":", " ", "M", "y", "s", "t", "e", "r", "y", "F", "o", "o", "d">>
BareMarkerText ==
    <<"-", " ", "I", "t", "e", "m", ":">>
\* two field markers on one line
SoupText ==
    <<"-", " ", "I", "t", "e", "m", ":", " ", "S", "o", "u", "p", " ", "-", " ", "b", "o", "w", "l", "\n", "C", "a", "l", "o", "r", "i", "e", "s", ":", " ", "1", "0", "0", " ", "k", "c", "a", "l", ",", " ", "C", "a", "r", "b", "s", ":", " ", "2", "0", " ", "g">>
\* one field marker per line
OatsMilkText ==
    <<"-", " ", "I", "t", "e", "m", ":", " ", "O", "a", "t", "s", " ", "-", " ", "d", "r", "y", "\n", "C", "a", "l", "o", "r", "i", "e", "s", ":", " ", "1", "0", "0", " ", "k", "c", "a", "l", "\n", "-", " ", "I", "t", "e", "m", ":", " ", "M", "i", "l", "k", " ", "-", " ", "c", "u", "p", "\n", "C", "a", "l", "o", "r", "i", "e", "s", ":", " ", "5", "0", " ", "k", "c", "a", "l", "\n", "C", "a", "r", "b", "s", ":", " ", "1", "0", " ", "g">>
\* no marker at all
NarrativeText ==
    <<"L", "o", "o", "k", "s", " ", "h", "e", "a", "l", "t", "h", "y">>

AppleBananaText ==
    AppleLine \o Newline \o BananaLine
EmptyText ==
    << >>
ReplyTexts ==
    { AppleBananaText, AppleLine, TotalsText, TwoDotsText, LoneDotText, MysteryText,
      BareMarkerText, SoupText, OatsMilkText, NarrativeText, EmptyText }
ContentTypes ==
    { ImagePng, TextPlain }
Messages ==
    { Hi, Blank, EmptyText }
ChatReplies ==
    { Advice, EmptyText }
\* the upload limit of analyze_food, in bytes
MaxUploadBytes ==
    5 * 1024 * 1024
ContentSizes ==
    { 1024, MaxUploadBytes, MaxUploadBytes + 1 }

\* ---------------------------------------------------------------------------
\* Python str operations on character sequences
\* ---------------------------------------------------------------------------
\* s[i:i+len(p)] == p, with i counted from 1
MatchAt(s, i, p) ==
    /\ i >= 1
    /\ i + Len(p) - 1 <= Len(s)
    /\ SubSeq(s, i, i + Len(p) - 1) = p
\* s.startswith(p)
StartsWith(s, p) ==
    MatchAt(s, 1, p)
\* s.find(p), counted from 1; 0 when p does not occur
Find(s, p) ==
    LET hits == { i \in 1..Len(s) : MatchAt(s, i, p) }
    IN  IF hits = {} THEN 0 ELSE CHOOSE i \in hits : \A j \in hits : i <= j
\* p in s
Contains(s, p) ==
    Find(s, p) # 0
\* s.split(sep): the pieces between the non-overlapping occurrences of sep,
\* found left to right
RECURSIVE Split(_, _)
Split(s, sep) ==
    LET i == Find(s, sep)
    IN  IF i = 0
        THEN << s >>
        ELSE << SubSeq(s, 1, i - 1) >> \o Split(SubSeq(s, i + Len(sep), Len(s)), sep)
\* s.strip() for the whitespace the model's messages contain
RECURSIVE Strip(_)
Strip(s) ==
    IF s = << >> THEN s
    ELSE IF Head(s) = " " THEN Strip(Tail(s))
    ELSE IF s[Len(s)] = " " THEN Strip(SubSeq(s, 1, Len(s) - 1))
    ELSE s

\* ---------------------------------------------------------------------------
\* re.search(prefix + "([\d.]+)" + suffix, line) and float()
\* ---------------------------------------------------------------------------
DigitChars ==
    << "0", "1", "2", "3", "4", "5", "6", "7", "8", "9" >>
Digits ==
    { DigitChars[i] : i \in 1..Len(DigitChars) }
\* the character class [\d.]
NumChars ==
    Digits \cup { "." }
\* the last index of the longest run of [\d.] characters that starts at j
\* (j - 1 when line[j] is not in the class)
RECURSIVE RunEnd(_, _)
RunEnd(line, j) ==
    IF j <= Len(line) /\ line[j] \in NumChars THEN RunEnd(line, j + 1) ELSE j - 1
\* the pattern matches at i: the literal prefix, a greedy run of at least one
\* [\d.] character, the literal suffix. The suffix starts with a space, which
\* is outside the class, so only the longest run can be followed by it.
MatchesAt(line, i, prefix, suffix) ==
    /\ MatchAt(line, i, prefix)
    /\ RunEnd(line, i + Len(prefix)) >= i + Len(prefix)
    /\ MatchAt(line, RunEnd(line, i + Len(prefix)) + 1, suffix)
NoMatch ==
    [ matched |-> FALSE, group1 |-> << >> ]
\* the leftmost match and its group(1)
ReSearch(prefix, suffix, line) ==
    LET hits == { i \in 1..Len(line) : MatchesAt(line, i, prefix, suffix) }
    IN  IF hits = {} THEN NoMatch
        ELSE LET i == CHOOSE h \in hits : \A j \in hits : h <= j
                 a == i + Len(prefix)
             IN  [ matched |-> TRUE, group1 |-> SubSeq(line, a, RunEnd(line, a)) ]
CountOf(tok, chars) ==
    Cardinality({ i \in 1..Len(tok) : tok[i] \in chars })
\* float(tok) succeeds on a token of [\d.]+ iff it has at most one point and
\* at least one digit; otherwise it raises ValueError
IsFloat(tok) ==
    /\ CountOf(tok, { "." }) <= 1
    /\ CountOf(tok, Digits) >= 1
DigitVal(c) ==
    CHOOSE n \in 0..9 : DigitChars[n + 1] = c
RECURSIVE DigitsVal(_)
DigitsVal(ds) ==
    IF ds = << >> THEN 0 ELSE 10 * DigitsVal(SubSeq(ds, 1, Len(ds) - 1)) + DigitVal(ds[Len(ds)])
RECURSIVE Pow10(_)
Pow10(n) ==
    IF n = 0 THEN 1 ELSE 10 * Pow10(n - 1)
\* one unit of a number, in the model's fixed-point representation
Scale ==
    Pow10(Precision)
\* float(tok) for a token IsFloat accepts; decimal places beyond Precision are
\* dropped (the replies of the model have at most one)
FloatOf(tok) ==
    LET dot  == Find(tok, << "." >>)
        ip   == IF dot = 0 THEN tok ELSE SubSeq(tok, 1, dot - 1)
        fp   == IF dot = 0 THEN << >> ELSE SubSeq(tok, dot + 1, Len(tok))
        kept == IF Len(fp) > Precision THEN SubSeq(fp, 1, Precision) ELSE fp
    IN  DigitsVal(ip) * Scale + DigitsVal(kept) * Pow10(Precision - Len(kept))

\* ---------------------------------------------------------------------------
\* Python dict operations
\* ---------------------------------------------------------------------------
EmptyDict ==
    [ k \in {} |-> 0 ]
\* d[k] = v
SetItem(d, k, v) ==
    [ x \in DOMAIN d \cup { k } |-> IF x = k THEN v ELSE d[x] ]
\* d.get(k, default)
Get(d, k, default) ==
    IF k \in DOMAIN d THEN d[k] ELSE default
\* truth value of a dict
Truthy(d) ==
    DOMAIN d # {}

\* ---------------------------------------------------------------------------
\* parse_gemini_response
\* ---------------------------------------------------------------------------
\* ItemName with a missing " - " separator treated as a failed extraction
ItemNameUnknownWithoutSep(line) ==
    LET parts == Split(line, ItemSep)
    IN  IF Len(parts) < 2 \/ ~Contains(parts[2], NameSep) THEN Unknown
        ELSE Split(parts[2], NameSep)[1]
\* line.split("Item: ")[1].split(" - ")[0], "Unknown" on IndexError
ItemName(line) ==
    LET parts == Split(line, ItemSep)
    IN  IF Len(parts) < 2 THEN Unknown ELSE Split(parts[2], NameSep)[1]
\* one branch of the elif chain: search the line for the field's pattern; on
\* a match store float(group(1)), which raises ValueError on a bad token
FieldBranch(st, line, field, prefix, suffix) ==
    LET m == ReSearch(prefix, suffix, line)
    IN  IF ~m.matched THEN st
        ELSE IF ~IsFloat(m.group1) THEN [ st EXCEPT !.raised = TRUE ]
        ELSE [ st EXCEPT !.current_item = SetItem(@, field, FloatOf(m.group1)) ]
\* datetime.now().strftime("%Y-%m-%d %H:%M:%S"): the model keeps no clock, every
\* capture time is the one symbolic value
Timestamp ==
    "now"
\* the body of the for loop, for one line
ParseLine(st, line) ==
    IF StartsWith(line, ItemMarker)
    THEN [ st EXCEPT
             !.food_items   = IF Truthy(st.current_item) THEN Append(@, st.current_item) ELSE @,
             !.current_item = SetItem(SetItem(EmptyDict, "timestamp", Timestamp), "name", ItemName(line)) ]
    ELSE IF Contains(line, CaloriesKey) THEN FieldBranch(st, line, "calories", CaloriesPrefix, KcalSuffix)
    ELSE IF Contains(line, CarbsKey)    THEN FieldBranch(st, line, "carbs", CarbsPrefix, GramSuffix)
    ELSE IF Contains(line, ProteinsKey) THEN FieldBranch(st, line, "proteins", ProteinsPrefix, GramSuffix)
    ELSE IF Contains(line, FatsKey)     THEN FieldBranch(st, line, "fats", FatsPrefix, GramSuffix)
    ELSE st
\* the for loop over lines[i..]; an exception ends it
RECURSIVE ParseLoop(_, _, _)
ParseLoop(st, lines, i) ==
    IF st.raised \/ i > Len(lines) THEN st
    ELSE ParseLoop(ParseLine(st, lines[i]), lines, i + 1)
\* parse_gemini_response without the append of the item under construction
\* after the loop
ParseDroppingLastItem(response_text) ==
    LET start == [ raised |-> FALSE, food_items |-> << >>, current_item |-> EmptyDict ]
        end   == ParseLoop(start, Split(response_text, Newline), 1)
    IN  [ raised |-> end.raised, food_items |-> IF end.raised THEN << >> ELSE end.food_items ]
\* parse_gemini_response(response_text): raised = TRUE when it ends in
\* ValueError, else food_items is what it returns
parse_gemini_response(response_text) ==
    LET start == [ raised |-> FALSE, food_items |-> << >>, current_item |-> EmptyDict ]
        end   == ParseLoop(start, Split(response_text, Newline), 1)
    IN  IF end.raised THEN [ raised |-> TRUE, food_items |-> << >> ]
        ELSE [ raised |-> FALSE,
               food_items |-> IF Truthy(end.current_item)
                              THEN Append(end.food_items, end.current_item)
                              ELSE end.food_items ]
\* the handler's call parse_gemini_response(response.text), tabulated once
\* over the replies of the model
ParseMemo ==
    [ t \in ReplyTexts |-> parse_gemini_response(t) ]
ParsedReply(text) ==
    ParseMemo[text]

\* ---------------------------------------------------------------------------
\* The log and its summary
\* ---------------------------------------------------------------------------
\* food_log = food_items in place of food_log.extend(food_items)
ExtendOverwriting(log, food_items) ==
    food_items
\* food_log.extend(food_items)
Extend(log, food_items) ==
    log \o food_items
\* sum(item.get(field, 0) for item in log)
RECURSIVE SumField(_, _)
SumField(log, field) ==
    IF log = << >> THEN 0
    ELSE Get(Head(log), field, 0) + SumField(Tail(log), field)
\* Summary with total_proteins summed over the 'carbs' key
SummaryProteinsFromCarbs(log) ==
    [ total_calories |-> SumField(log, "calories"),
      total_carbs    |-> SumField(log, "carbs"),
      total_proteins |-> SumField(log, "carbs"),
      total_fats     |-> SumField(log, "fats") ]
\* the summary dict built by analyze_food and get_food_log
Summary(log) ==
    [ total_calories |-> SumField(log, "calories"),
      total_carbs    |-> SumField(log, "carbs"),
      total_proteins |-> SumField(log, "proteins"),
      total_fats     |-> SumField(log, "fats") ]

\* ---------------------------------------------------------------------------
\* Exceptions and responses
\* ---------------------------------------------------------------------------
\* HTTPException(status_code=..., detail=...)
HTTPException(status_code, detail) ==
    [ type |-> "HTTPException", status_code |-> status_code, detail |-> detail ]
\* an exception raised by model.generate_content
ModelError ==
    [ type |-> "Exception", status_code |-> 0, detail |-> "generate_content failed" ]
\* the ValueError float() raises inside parse_gemini_response
ValueError ==
    [ type |-> "ValueError", status_code |-> 0, detail |-> "could not convert string to float" ]
\* `except Exception as e: raise HTTPException(status_code=500, detail=f"...{str(e)}")`:
\* HTTPException is an Exception, so the clause catches the handler's own
\* HTTPExceptions too; the response keeps e in its detail
ExceptClause(kind, e) ==
    [ kind |-> kind, status_code |-> 500, detail |-> e ]
\* what a call of generate_content may do: raise, or return a text
Raises ==
    [ raised |-> TRUE, text |-> EmptyText ]
Returns(text) ==
    [ raised |-> FALSE, text |-> text ]
AnalyzeResults ==
    { Raises } \cup { Returns(t) : t \in ReplyTexts }
ChatResults ==
    { Raises } \cup { Returns(t) : t \in ChatReplies }
\* the second call of generate_content is made only when the first raised
FallbackResults(primary, results) ==
    IF primary.raised THEN results ELSE { primary }
\* try: primary model; except: the same call again
GenerateContent(primary, fallback) ==
    IF primary.raised THEN fallback ELSE primary

\* ---------------------------------------------------------------------------
\* State
\* ---------------------------------------------------------------------------
VARIABLES
    food_log,       \* the module-level list food_log
    chat_history,   \* the module-level list chat_history
    awaiting,       \* the number of analyze_food calls suspended at `await file.read()`
    last_response   \* the response most recently sent by a handler

vars == << food_log, chat_history, awaiting, last_response >>

Init ==
    /\ food_log = << >>
    /\ chat_history = << >>
    /\ awaiting = 0
    /\ last_response = [ kind |-> "none", status_code |-> 0 ]

\* ---------------------------------------------------------------------------
\* POST /analyze-food
\* ---------------------------------------------------------------------------
\* from the call to the first suspension point: the content-type check, then
\* `await file.read()`
AnalyzeStart ==
    /\ \E content_type \in ContentTypes :
         IF ~StartsWith(content_type, ImagePrefix)
         THEN /\ last_response' = ExceptClause("analyze-food", HTTPException(400, "Invalid file type"))
              /\ UNCHANGED << food_log, chat_history, awaiting >>
         ELSE /\ awaiting < MaxInFlight
              /\ awaiting' = awaiting + 1
              /\ UNCHANGED << food_log, chat_history, last_response >>

\* AnalyzeReturn with the summary taken over the log as it stood before this
\* call's extend
AnalyzeReturnStaleSummary(text, food_items) ==
    /\ Len(food_log) + Len(food_items) <= MaxLog
    /\ food_log' = Extend(food_log, food_items)
    /\ last_response' = [ kind       |-> "analyze-food",
                          status_code |-> 200,
                          analysis   |-> text,
                          food_items |-> food_items,
                          food_log   |-> food_log',
                          summary    |-> Summary(food_log) ]
\* the successful tail of analyze_food: parse, extend the log, summarise, return
AnalyzeReturn(text, food_items) ==
    /\ Len(food_log) + Len(food_items) <= MaxLog
    /\ food_log' = Extend(food_log, food_items)
    /\ last_response' = [ kind       |-> "analyze-food",
                          status_code |-> 200,
                          analysis   |-> text,
                          food_items |-> food_items,
                          food_log   |-> food_log',
                          summary    |-> Summary(food_log') ]

\* from the resumption after file.read() to the response; there is no await
\* in this part, so the event loop runs it without interleaving
AnalyzeResume ==
    /\ awaiting > 0
    /\ awaiting' = awaiting - 1
    /\ UNCHANGED chat_history
    /\ \E size \in ContentSizes :
         LET Fail(e) == /\ last_response' = ExceptClause("analyze-food", e)
                        /\ UNCHANGED food_log
         IN  IF size > MaxUploadBytes
             THEN Fail(HTTPException(400, "Image size exceeds 5MB limit"))
             ELSE \E primary \in AnalyzeResults :
                  \E fallback \in FallbackResults(primary, AnalyzeResults) :
                    LET response == GenerateContent(primary, fallback)
                        parsed   == ParsedReply(response.text)
                    IN  IF response.raised
                            THEN Fail(ModelError)
                        ELSE IF response.text = EmptyText
                            THEN Fail(HTTPException(500, "No response from Gemini API"))
                        ELSE IF parsed.raised
                            THEN Fail(ValueError)
                        ELSE AnalyzeReturn(response.text, parsed.food_items)

\* ---------------------------------------------------------------------------
\* POST /chat, GET /food-log, GET /chat-history: no await, one step each
\* ---------------------------------------------------------------------------
ChatWithNutritionist ==
    /\ UNCHANGED << food_log, awaiting >>
    /\ \E message \in Messages :
         LET Fail(e) == /\ last_response' = ExceptClause("chat", e)
                        /\ UNCHANGED chat_history
         IN  IF Strip(message) = EmptyText
             THEN Fail(HTTPException(400, "Message cannot be empty"))
             ELSE \E primary \in ChatResults :
                  \E fallback \in FallbackResults(primary, ChatResults) :
                    LET response == GenerateContent(primary, fallback)
                    IN  IF response.raised
                            THEN Fail(ModelError)
                        ELSE IF response.text = EmptyText
                            THEN Fail(HTTPException(500, "No response from Gemini API"))
                        ELSE /\ Len(chat_history) < MaxChat
                             /\ chat_history' = Append(chat_history, [ user |-> message, bot |-> response.text ])
                             /\ last_response' = [ kind |-> "chat", status_code |-> 200,
                                                   response |-> response.text ]

GetFoodLog ==
    /\ last_response' = [ kind |-> "food-log", status_code |-> 200,
                          food_log |-> food_log, summary |-> Summary(food_log) ]
    /\ UNCHANGED << food_log, chat_history, awaiting >>

GetChatHistory ==
    /\ last_response' = [ kind |-> "chat-history", status_code |-> 200,
                          chat_history |-> chat_history ]
    /\ UNCHANGED << food_log, chat_history, awaiting >>

Next ==
    \/ AnalyzeStart
    \/ AnalyzeResume
    \/ ChatWithNutritionist
    \/ GetFoodLog
    \/ GetChatHistory

Spec == Init /\ [][Next]_vars

\* ---------------------------------------------------------------------------
\* Vocabulary of the properties
\* ---------------------------------------------------------------------------
\* the decimal number units.tenths, in the model's fixed-point representation
Dec(units, tenths) ==
    units * Scale + tenths * (Scale \div 10)
NumericFields ==
    { "calories", "carbs", "proteins", "fats" }
\* a complete record: name, capture time and the four numbers
FullItem(name, calories, carbs, proteins, fats) ==
    [ timestamp |-> Timestamp, name |-> name, calories |-> calories,
      carbs |-> carbs, proteins |-> proteins, fats |-> fats ]
\* a record with a name and a capture time only
NameOnlyItem(name) ==
    [ timestamp |-> Timestamp, name |-> name ]
\* the numeric fields of a record
Numbers(item) ==
    [ k \in DOMAIN item \cap NumericFields |-> item[k] ]
\* the last response is analyze_food's 200 response: the reply text it was
\* given is last_response.analysis, the parser's result last_response.food_items
AnalyzeOk ==
    last_response.kind = "analyze-food" /\ last_response.status_code = 200
\* the last response is the except clause's report of an exception e
Failed ==
    last_response.kind \in { "analyze-food", "chat" } /\ last_response.status_code # 200
LinesOf(text) ==
    Split(text, Newline)
IsItemLine(line) ==
    StartsWith(line, ItemMarker)
\* the lines of text that start with "- Item:", in order
RECURSIVE ItemLines(_)
ItemLines(lines) ==
    IF lines = << >> THEN << >>
    ELSE IF IsItemLine(Head(lines)) THEN << Head(lines) >> \o ItemLines(Tail(lines))
    ELSE ItemLines(Tail(lines))
\* the sum of a field over a log read by position, an absent field counting 0
RECURSIVE TotalUpTo(_, _, _)
TotalUpTo(log, field, n) ==
    IF n = 0 THEN 0
    ELSE TotalUpTo(log, field, n - 1) + (IF field \in DOMAIN log[n] THEN log[n][field] ELSE 0)
Totals(log) ==
    [ total_calories |-> TotalUpTo(log, "calories", Len(log)),
      total_carbs    |-> TotalUpTo(log, "carbs", Len(log)),
      total_proteins |-> TotalUpTo(log, "proteins", Len(log)),
      total_fats     |-> TotalUpTo(log, "fats", Len(log)) ]
\* line has the documented one-line shape
\* "- Item: <name> - Calories: <c> kcal, Carbs: <k> g, Proteins: <p> g, Fats: <f> g"
IsNumeral(tok) ==
    /\ tok # << >>
    /\ \A i \in 1..Len(tok) : tok[i] \in NumChars
    /\ IsFloat(tok)
DocumentedShape(line) ==
    LET a == Split(line, NameSep \o CaloriesPrefix)
        b == Split(a[2], KcalSuffix \o << ",", " " >> \o CarbsPrefix)
        c == Split(b[2], GramSuffix \o << ",", " " >> \o ProteinsPrefix)
        d == Split(c[2], GramSuffix \o << ",", " " >> \o FatsPrefix)
        e == Split(d[2], GramSuffix)
    IN  /\ Len(a) = 2 /\ StartsWith(a[1], << "-", " " >> \o ItemSep)
        /\ ~Contains(a[1], NameSep)
        /\ Len(b) = 2 /\ IsNumeral(b[1])
        /\ Len(c) = 2 /\ IsNumeral(c[1])
        /\ Len(d) = 2 /\ IsNumeral(d[1])
        /\ Len(e) = 2 /\ e[2] = << >> /\ IsNumeral(e[1])
\* the <name> of a line of the documented shape
DocumentedName(line) ==
    LET a == Split(line, NameSep \o CaloriesPrefix)
    IN  SubSeq(a[1], Len(ItemSep) + 3, Len(a[1]))
\* a well-formed block: one or more lines, each of the documented shape
WellFormed(text) ==
    \A i \in 1..Len(LinesOf(text)) : DocumentedShape(LinesOf(text)[i])

\* ---------------------------------------------------------------------------
\* Properties
\* ---------------------------------------------------------------------------

\* C1: the Apple / Banana reply of the documented one-line shape parses to two
\* records carrying the name and the four numbers of their lines, and the
\* totals over just these two records are calories 200, carbs 52,
\* proteins 1.8, fats 0.7.
C1_DocumentedLinesCarryNumbers ==
    (AnalyzeOk /\ last_response.analysis = AppleBananaText) =>
        /\ last_response.food_items =
             << FullItem(Apple, Dec(95, 0), Dec(25, 0), Dec(0, 5), Dec(0, 3)),
                FullItem(Banana, Dec(105, 0), Dec(27, 0), Dec(1, 3), Dec(0, 4)) >>
        /\ Totals(last_response.food_items) =
             [ total_calories |-> Dec(200, 0), total_carbs |-> Dec(52, 0),
               total_proteins |-> Dec(1, 8), total_fats |-> Dec(0, 7) ]

\* C2: a reply in which no line starts with "- Item:" parses to the empty
\* sequence, also when a line holds a field marker that matches.
C2_NoItemLineGivesNoRecord ==
    (AnalyzeOk /\ ItemLines(LinesOf(last_response.analysis)) = << >>) =>
        last_response.food_items = << >>

\* C3: parse_gemini_response never raises: no analyze-food request ends in the
\* report of a ValueError from the conversion of a captured token.
C3_ParserNeverRaises ==
    (Failed /\ last_response.kind = "analyze-food") =>
        last_response.detail.type # "ValueError"

\* the reply is one line that starts with "- Item:" and has no " - " after it
LoneItemLineWithoutSep ==
    /\ AnalyzeOk
    /\ Len(LinesOf(last_response.analysis)) = 1
    /\ IsItemLine(last_response.analysis)
    /\ ~Contains(SubSeq(last_response.analysis, Len(ItemMarker) + 1,
                        Len(last_response.analysis)), NameSep)
\* C4, as claimed: an item line without a " - " separator after the name gives
\* one record named "Unknown" with no numeric field.
C4_NoSeparatorGivesUnknown ==
    LoneItemLineWithoutSep =>
        last_response.food_items = << NameOnlyItem(Unknown) >>
\* the text after the first "Item: " of the line, up to a second "Item: " if
\* there is one; "Unknown" when the line holds no "Item: "
TextAfterItemSep(line) ==
    LET i    == Find(line, ItemSep)
        rest == SubSeq(line, i + Len(ItemSep), Len(line))
        j    == Find(rest, ItemSep)
    IN  IF i = 0 THEN Unknown
        ELSE IF j = 0 THEN rest
        ELSE SubSeq(rest, 1, j - 1)
\* C4, amended: an item line without a " - " separator after the name gives
\* one record with no numeric field whose name is the text after "Item: ";
\* the name is "Unknown" only when the line holds no "Item: ".
C4_NoSeparatorKeepsText ==
    LoneItemLineWithoutSep =>
        last_response.food_items =
            << NameOnlyItem(TextAfterItemSep(last_response.analysis)) >>
C4_Witness ==
    /\ LoneItemLineWithoutSep
    /\ last_response.analysis = MysteryText
    /\ last_response.food_items = << NameOnlyItem(MysteryFood) >>

\* a successful analyze_food resumes and returns in this step
AnalyzeCompletes ==
    /\ awaiting' = awaiting - 1
    /\ last_response'.kind = "analyze-food"
    /\ last_response'.status_code = 200
\* C5: food_log is append-only. Every step keeps the log as a prefix of the
\* new log; the log grows only in a successful analyze-food, which extends it
\* by exactly the records parsed from the reply, in parse order; a request that
\* fails leaves the log unchanged.
C5_LogAppendOnly ==
    [][ /\ Len(food_log') >= Len(food_log)
        /\ SubSeq(food_log', 1, Len(food_log)) = food_log
        /\ AnalyzeCompletes =>
             /\ Len(food_log') = Len(food_log) + Len(last_response'.food_items)
             /\ \A k \in 1..Len(last_response'.food_items) :
                  food_log'[Len(food_log) + k] = last_response'.food_items[k]
        /\ ~AnalyzeCompletes => food_log' = food_log
      ]_vars
C5_Witness ==
    /\ AnalyzeOk
    /\ Len(last_response.food_items) >= 1
    /\ Len(food_log) > Len(last_response.food_items)

\* C6: the summary of analyze-food and of food-log holds, per field, the sum
\* over every record of food_log, an absent field counting 0; on the empty log
\* the four totals are 0, and on a log whose records carry {calories 100} and
\* {calories 50, carbs 10} they are 150, 10, 0, 0.
C6_SummaryIsTotalOfLog ==
    ((AnalyzeOk \/ last_response.kind = "food-log")) =>
        /\ last_response.food_log = food_log
        /\ last_response.summary = Totals(food_log)
        /\ food_log = << >> =>
             last_response.summary = [ total_calories |-> 0, total_carbs |-> 0,
                                       total_proteins |-> 0, total_fats |-> 0 ]
        /\ ( /\ Len(food_log) = 2
             /\ Numbers(food_log[1]) = [ calories |-> Dec(100, 0) ]
             /\ Numbers(food_log[2]) = [ calories |-> Dec(50, 0), carbs |-> Dec(10, 0) ] ) =>
             last_response.summary = [ total_calories |-> Dec(150, 0), total_carbs |-> Dec(10, 0),
                                       total_proteins |-> 0, total_fats |-> 0 ]
C6_Witness ==
    /\ AnalyzeOk
    /\ last_response.analysis = OatsMilkText
    /\ Len(food_log) = 2
    /\ Numbers(food_log[1]) = [ calories |-> Dec(100, 0) ]
    /\ Numbers(food_log[2]) = [ calories |-> Dec(50, 0), carbs |-> Dec(10, 0) ]
    /\ last_response.summary.total_calories = Dec(150, 0)

\* C7: a well-formed block parses to exactly one record per "- Item:" line, in
\* the order of the lines, each record with a name and a timestamp.
C7_OneRecordPerItemLine ==
    (AnalyzeOk /\ WellFormed(last_response.analysis)) =>
        LET items == ItemLines(LinesOf(last_response.analysis))
        IN  /\ Len(last_response.food_items) = Len(items)
            /\ \A k \in 1..Len(items) :
                 /\ { "name", "timestamp" } \subseteq DOMAIN last_response.food_items[k]
                 /\ last_response.food_items[k].name = DocumentedName(items[k])
C7_Witness ==
    /\ AnalyzeOk
    /\ WellFormed(last_response.analysis)
    /\ Len(ItemLines(LinesOf(last_response.analysis))) = 2
    /\ last_response.food_items[1].name = Apple
    /\ last_response.food_items[2].name = Banana

\* C8: on a line that does not start with "- Item:", each of "Carbs: <n> g",
\* "Proteins: <n> g", "Fats: <n> g" sets its field of the current record,
\* whatever other field marker the line holds. Stated for the last line of a
\* reply, whose current record is the last record returned.
GramFields ==
    { << "carbs", CarbsPrefix >>, << "proteins", ProteinsPrefix >>, << "fats", FatsPrefix >> }
C8_EachMarkerHandled ==
    (AnalyzeOk /\ last_response.food_items # << >>) =>
        LET lines == LinesOf(last_response.analysis)
            line  == lines[Len(lines)]
            item  == last_response.food_items[Len(last_response.food_items)]
        IN  ~IsItemLine(line) =>
              \A f \in GramFields :
                 LET m == ReSearch(f[2], GramSuffix, line)
                 IN  (m.matched /\ IsFloat(m.group1)) =>
                        /\ f[1] \in DOMAIN item
                        /\ item[f[1]] = FloatOf(m.group1)

\* C9: a request the handler's own validation rejects (analyze-food with a
\* content type outside image/ or more than 5 MB, chat with a blank message)
\* is answered with status 400.
C9_ValidationAnswers400 ==
    ( /\ Failed
      /\ last_response.detail.type = "HTTPException"
      /\ last_response.detail.status_code = 400 ) =>
        last_response.status_code = 400

\* C10: appends and reads of food_log are serialized, with other analyze-food
\* calls suspended or not: a successful analyze-food puts its records in one
\* contiguous block at the end of the log as it stood, returns the log as it
\* stands right after its own append and the totals over exactly that log; a
\* food-log read returns the whole log and its totals and changes nothing.
C10_AppendAndSummaryAtomic ==
    [][ /\ AnalyzeCompletes =>
             /\ food_log' = food_log \o last_response'.food_items
             /\ last_response'.food_log = food_log'
             /\ last_response'.summary = Totals(food_log')
        /\ (last_response'.kind = "food-log" /\ last_response' # last_response) =>
             /\ food_log' = food_log
             /\ last_response'.food_log = food_log
             /\ last_response'.summary = Totals(food_log)
      ]_vars
C10_Witness ==
    /\ awaiting >= 1
    /\ AnalyzeOk
    /\ Len(last_response.food_items) = 2
    /\ Len(food_log) = 3
    /\ last_response.summary = Totals(food_log)
====
